---- MODULE Spec2Model ----
(***************************************************************************)
(* DID Rotate manager (aries_cloudagent/protocols/did_rotate/v1_0/         *)
(* manager.py) as a state machine.                                         *)
(*                                                                         *)
(* The manager's handlers never read the store while they run: each is a   *)
(* pure function of its arguments and of the outcomes of the collaborators *)
(* it awaits (resolver, connection manager, responder, storage session).   *)
(* A handler is therefore modelled as an operator that computes, as the    *)
(* code does, the ordered list of collaborator invocations it performs,    *)
(* the exception it ends with and the in-memory objects it leaves behind;  *)
(* RunEvents applies that list to the store and the outbound log.          *)
(*                                                                         *)
(* Spec     runs every handler call to completion, one call at a time.     *)
(* ConcSpec runs commit_rotate calls as tasks that interleave at their     *)
(*          await points.                                                  *)
(*                                                                         *)
(* The problem report schema (aries_cloudagent/protocols/out_of_band/v1_0/ *)
(* messages/problem_report.py) is a pure function of the loaded data:      *)
(* SchemaSpec applies validate_fields to reports drawn from a bounded set. *)
(***************************************************************************)
EXTENDS Integers, Sequences, FiniteSets, TLC

VARIABLES
    connStore,   \* persisted ConnRecord.their_did, per connection_id
    recStore,    \* persisted RotateRecords, per record id
    sent,        \* every message handed to the responder, in order
    call,        \* the handler call that ran last (Spec)
    tasks,       \* commit_rotate calls in flight (ConcSpec)
    validated    \* the reports validate_fields was applied to (SchemaSpec)

vars == <<connStore, recStore, sent, call, tasks, validated>>

----------------------------------------------------------------------------
(* Bounds *)

\* handler calls in a behaviour of Spec
MaxCalls == 2
\* handler calls in a behaviour of ConcSpec: receive_rotate calls and
\* commit_rotate tasks together
MaxTasks == 3

\* connection ids; DIDs a Rotate can propose (the empty one included: the code
\* takes any string); their_did before any rotation; ids of inbound Rotates
Conns == {1, 2}
DIDs == {"", "did:new", "did:next"}
OldDid == "did:old"
InboundIds == {<<"in", 1>>, <<"in", 2>>}

\* reports validated in a behaviour of SchemaSpec
MaxReports == 2

\* a record's id is the number of the call that first saved it
RecIds == 1 .. MaxCalls
TaskIds == 1 .. MaxTasks

----------------------------------------------------------------------------
(* RotateRecord roles and states, exceptions *)

ROLE_ROTATING == "rotating"
ROLE_OBSERVING == "observing"
STATE_ROTATE_SENT == "rotate-sent"
STATE_ROTATE_RECEIVED == "rotate-received"
STATE_ACK_SENT == "ack-sent"

DID_UNRESOLVABLE == "unresolvable"
DID_METHOD_UNSUPPORTED == "method_unsupported"

ReportableDIDRotateError == {"UnresolvableDIDError", "UnsupportedDIDMethodError"}

NoThread == <<>>
NoMsg == [type |-> "none", id |-> <<>>, thid |-> NoThread, to_did |-> "", code |-> ""]
NoRec == [role |-> "none", state |-> "none", connection_id |-> 0,
          new_did |-> "", thread_id |-> NoThread]
NoConn == [connection_id |-> 0, their_did |-> ""]

----------------------------------------------------------------------------
(* Collaborator outcomes, chosen freely at each call *)

ResolveOutcomes == {"ok", "DIDNotFound", "DIDMethodNotSupported"}

Outcomes ==
    [resolve : ResolveOutcomes, services : BOOLEAN, keys : BOOLEAN,
     send : BOOLEAN, conn_save : BOOLEAN, record_save : BOOLEAN]

AllOk ==
    [resolve |-> "ok", services |-> TRUE, keys |-> TRUE, send |-> TRUE,
     conn_save |-> TRUE, record_save |-> TRUE]

\* the outcomes a handler can tell apart: the others are fixed
RotateOutcomes ==
    {o \in Outcomes : o.resolve = "ok" /\ o.services /\ o.keys /\ o.conn_save
                      /\ (~o.send => o.record_save)}
EnsureOutcomes ==
    {o \in Outcomes : /\ o.keys /\ o.conn_save /\ o.send /\ o.record_save
                      /\ (o.resolve # "ok" => o.services)}
ReceiveOutcomes ==
    {o \in Outcomes : /\ o.keys /\ o.conn_save
                      /\ (o.resolve # "ok" => o.services)
                      /\ (o.resolve = "ok" => o.send)
                      /\ ((~o.send \/ ~o.services) => o.record_save)}
CommitOutcomes ==
    {o \in Outcomes : /\ o.resolve = "ok" /\ o.services
                      /\ (~o.keys => o.send)
                      /\ (~(o.keys /\ o.send) => o.conn_save)
                      /\ (~(o.keys /\ o.send /\ o.conn_save) => o.record_save)}

----------------------------------------------------------------------------
(* Messages *)

Rotate(id, to_did) ==
    [type |-> "Rotate", id |-> id, thid |-> NoThread, to_did |-> to_did, code |-> ""]

RotateAck(id) ==
    [type |-> "RotateAck", id |-> id, thid |-> NoThread, to_did |-> "", code |-> ""]

assign_thread_id(msg, thid) == [msg EXCEPT !.thid = thid]

RotateProblemReport(id, code) ==
    [type |-> "RotateProblemReport", id |-> id, thid |-> NoThread,
     to_did |-> "", code |-> code]

unresolvable(id, did) == RotateProblemReport(id, DID_UNRESOLVABLE)

method_unsupported(id, did) == RotateProblemReport(id, DID_METHOD_UNSUPPORTED)

----------------------------------------------------------------------------
(* Collaborator invocations *)

Ev(op, ok) ==
    [op |-> op, ok |-> ok, did |-> "", msg |-> NoMsg, connection_id |-> 0,
     rid |-> 0, rec |-> NoRec]

resolve(did, ok) == [Ev("resolve", ok) EXCEPT !.did = did]

resolve_didcomm_services(did, ok) ==
    [Ev("resolve_didcomm_services", ok) EXCEPT !.did = did]

record_keys_for_resolvable_did(did, ok) ==
    [Ev("record_keys_for_resolvable_did", ok) EXCEPT !.did = did]

send(msg, connection_id, ok) ==
    [Ev("send", ok) EXCEPT !.msg = msg, !.connection_id = connection_id]

conn_save(conn, ok) ==
    [Ev("conn.save", ok) EXCEPT !.connection_id = conn.connection_id,
                                !.did = conn.their_did]

record_save(rid, record, ok) ==
    [Ev("record.save", ok) EXCEPT !.rid = rid, !.rec = record]

\* what a handler call leaves behind
Outcome(events, result, record, conn) ==
    [events |-> events, result |-> result, record |-> record, conn |-> conn]

----------------------------------------------------------------------------
(* DIDRotateManager: the handlers.  n numbers the call and makes the ids  *)
(* of the messages it creates fresh; o gives the collaborators' outcomes. *)

\* rotate_my_did without its line 80: the record never gets the Rotate's id
rotate_my_did_unthreaded(conn, new_did, n, o) ==
    LET rotate == Rotate(<<"rotate", n>>, new_did)
        record == [role |-> ROLE_ROTATING, state |-> STATE_ROTATE_SENT,
                   connection_id |-> conn.connection_id, new_did |-> new_did,
                   thread_id |-> NoThread]
        sending == send(rotate, conn.connection_id, o.send)
        saving == record_save(n, record, o.record_save)
    IN  IF ~o.send THEN Outcome(<<sending>>, "TransportError", record, conn)
        ELSE IF ~o.record_save
             THEN Outcome(<<sending, saving>>, "StorageError", record, conn)
        ELSE Outcome(<<sending, saving>>, "ok", record, conn)

\* rotate_my_did with the save of lines 85-86 moved above the send of line 83
rotate_my_did_save_first(conn, new_did, n, o) ==
    LET rotate == Rotate(<<"rotate", n>>, new_did)
        record == [role |-> ROLE_ROTATING, state |-> STATE_ROTATE_SENT,
                   connection_id |-> conn.connection_id, new_did |-> new_did,
                   thread_id |-> rotate.id]
        sending == send(rotate, conn.connection_id, o.send)
        saving == record_save(n, record, o.record_save)
    IN  IF ~o.record_save THEN Outcome(<<saving>>, "StorageError", record, conn)
        ELSE IF ~o.send
             THEN Outcome(<<saving, sending>>, "TransportError", record, conn)
        ELSE Outcome(<<saving, sending>>, "ok", record, conn)

rotate_my_did(conn, new_did, n, o) ==
    LET rotate == Rotate(<<"rotate", n>>, new_did)
        record == [role |-> ROLE_ROTATING, state |-> STATE_ROTATE_SENT,
                   connection_id |-> conn.connection_id, new_did |-> new_did,
                   thread_id |-> rotate.id]
        sending == send(rotate, conn.connection_id, o.send)
        saving == record_save(n, record, o.record_save)
    IN  IF ~o.send THEN Outcome(<<sending>>, "TransportError", record, conn)
        ELSE IF ~o.record_save
             THEN Outcome(<<sending, saving>>, "StorageError", record, conn)
        ELSE Outcome(<<sending, saving>>, "ok", record, conn)

\* raised: the exception ensure_supported_did ends with ("none": it returns);
\* message: the problem report a reportable error carries
\* ensure_supported_did with the except clause of lines 94-95 raising what the
\* clause of lines 96-97 raises
ensure_supported_did_one_code(did, n, o) ==
    LET resolving == resolve(did, o.resolve = "ok")
        services == resolve_didcomm_services(did, o.services)
    IN  IF o.resolve \in {"DIDMethodNotSupported", "DIDNotFound"}
        THEN [events |-> <<resolving>>, raised |-> "UnresolvableDIDError",
              message |-> unresolvable(<<"report", n>>, did)]
        ELSE IF ~o.services
        THEN [events |-> <<resolving, services>>, raised |-> "DIDRotateManagerError",
              message |-> NoMsg]
        ELSE [events |-> <<resolving, services>>, raised |-> "none",
              message |-> NoMsg]

\* ensure_supported_did with the failure of lines 99-103 made reportable
ensure_supported_did_services_reportable(did, n, o) ==
    LET resolving == resolve(did, o.resolve = "ok")
        services == resolve_didcomm_services(did, o.services)
    IN  IF o.resolve = "DIDMethodNotSupported"
        THEN [events |-> <<resolving>>, raised |-> "UnsupportedDIDMethodError",
              message |-> method_unsupported(<<"report", n>>, did)]
        ELSE IF o.resolve = "DIDNotFound"
        THEN [events |-> <<resolving>>, raised |-> "UnresolvableDIDError",
              message |-> unresolvable(<<"report", n>>, did)]
        ELSE IF ~o.services
        THEN [events |-> <<resolving, services>>, raised |-> "UnresolvableDIDError",
              message |-> unresolvable(<<"report", n>>, did)]
        ELSE [events |-> <<resolving, services>>, raised |-> "none",
              message |-> NoMsg]

\* ensure_supported_did with the try of lines 99-103 placed before the try of
\* lines 92-97
ensure_supported_did_services_first(did, n, o) ==
    LET resolving == resolve(did, o.resolve = "ok")
        services == resolve_didcomm_services(did, o.services)
    IN  IF ~o.services
        THEN [events |-> <<services>>, raised |-> "DIDRotateManagerError",
              message |-> NoMsg]
        ELSE IF o.resolve = "DIDMethodNotSupported"
        THEN [events |-> <<services, resolving>>, raised |-> "UnsupportedDIDMethodError",
              message |-> method_unsupported(<<"report", n>>, did)]
        ELSE IF o.resolve = "DIDNotFound"
        THEN [events |-> <<services, resolving>>, raised |-> "UnresolvableDIDError",
              message |-> unresolvable(<<"report", n>>, did)]
        ELSE [events |-> <<services, resolving>>, raised |-> "none",
              message |-> NoMsg]

ensure_supported_did(did, n, o) ==
    LET resolving == resolve(did, o.resolve = "ok")
        services == resolve_didcomm_services(did, o.services)
    IN  IF o.resolve = "DIDMethodNotSupported"
        THEN [events |-> <<resolving>>, raised |-> "UnsupportedDIDMethodError",
              message |-> method_unsupported(<<"report", n>>, did)]
        ELSE IF o.resolve = "DIDNotFound"
        THEN [events |-> <<resolving>>, raised |-> "UnresolvableDIDError",
              message |-> unresolvable(<<"report", n>>, did)]
        ELSE IF ~o.services
        THEN [events |-> <<resolving, services>>, raised |-> "DIDRotateManagerError",
              message |-> NoMsg]
        ELSE [events |-> <<resolving, services>>, raised |-> "none",
              message |-> NoMsg]

\* receive_rotate returning from the except clause of lines 122-124 once the
\* report is sent: the record is not saved
receive_rotate_report_only(conn, rotate, n, o) ==
    LET record == [role |-> ROLE_OBSERVING, state |-> STATE_ROTATE_RECEIVED,
                   connection_id |-> conn.connection_id, new_did |-> rotate.to_did,
                   thread_id |-> rotate.id]
        checked == ensure_supported_did(rotate.to_did, n, o)
        reporting == send(checked.message, conn.connection_id, o.send)
        saving == record_save(n, record, o.record_save)
    IN  IF checked.raised \in ReportableDIDRotateError
        THEN Outcome(checked.events \o <<reporting>>,
                     IF o.send THEN "ok" ELSE "TransportError", record, conn)
        ELSE IF checked.raised # "none"
        THEN Outcome(checked.events, checked.raised, record, conn)
        ELSE IF ~o.record_save
        THEN Outcome(checked.events \o <<saving>>, "StorageError", record, conn)
        ELSE Outcome(checked.events \o <<saving>>, "ok", record, conn)

\* receive_rotate raising the reportable error again after sending its report
receive_rotate_reraise(conn, rotate, n, o) ==
    LET record == [role |-> ROLE_OBSERVING, state |-> STATE_ROTATE_RECEIVED,
                   connection_id |-> conn.connection_id, new_did |-> rotate.to_did,
                   thread_id |-> rotate.id]
        checked == ensure_supported_did(rotate.to_did, n, o)
        reporting == send(checked.message, conn.connection_id, o.send)
        saving == record_save(n, record, o.record_save)
    IN  IF checked.raised \in ReportableDIDRotateError
        THEN Outcome(checked.events \o <<reporting>>,
                     IF o.send THEN checked.raised ELSE "TransportError", record, conn)
        ELSE IF checked.raised # "none"
        THEN Outcome(checked.events, checked.raised, record, conn)
        ELSE IF ~o.record_save
        THEN Outcome(checked.events \o <<saving>>, "StorageError", record, conn)
        ELSE Outcome(checked.events \o <<saving>>, "ok", record, conn)

receive_rotate(conn, rotate, n, o) ==
    LET record == [role |-> ROLE_OBSERVING, state |-> STATE_ROTATE_RECEIVED,
                   connection_id |-> conn.connection_id, new_did |-> rotate.to_did,
                   thread_id |-> rotate.id]
        checked == ensure_supported_did(rotate.to_did, n, o)
        reporting == send(checked.message, conn.connection_id, o.send)
        saving == record_save(n, record, o.record_save)
        before == IF checked.raised \in ReportableDIDRotateError
                  THEN checked.events \o <<reporting>>
                  ELSE checked.events
    IN  IF checked.raised \in ReportableDIDRotateError /\ ~o.send
        THEN Outcome(before, "TransportError", record, conn)
        ELSE IF checked.raised \notin ReportableDIDRotateError \cup {"none"}
        THEN Outcome(before, checked.raised, record, conn)
        ELSE IF ~o.record_save
        THEN Outcome(before \o <<saving>>, "StorageError", record, conn)
        ELSE Outcome(before \o <<saving>>, "ok", record, conn)

\* commit_rotate without conn.save (line 160): only the record is saved
commit_rotate_conn_unsaved(conn, rid, record, n, o) ==
    LET marked == [record EXCEPT !.state = STATE_ACK_SENT]
        keys == record_keys_for_resolvable_did(marked.new_did, o.keys)
        rotated == [conn EXCEPT !.their_did = marked.new_did]
        ack == assign_thread_id(RotateAck(<<"ack", n>>), marked.thread_id)
        acking == send(ack, rotated.connection_id, o.send)
        saving_record == record_save(rid, marked, o.record_save)
    IN  IF marked.new_did = "" THEN Outcome(<<>>, "ValueError", marked, conn)
        ELSE IF ~o.keys
        THEN Outcome(<<keys>>, "DIDRotateManagerError", marked, conn)
        ELSE IF ~o.send
        THEN Outcome(<<keys, acking>>, "TransportError", marked, rotated)
        ELSE IF ~o.record_save
        THEN Outcome(<<keys, acking, saving_record>>, "StorageError", marked, rotated)
        ELSE Outcome(<<keys, acking, saving_record>>, "ok", marked, rotated)

\* commit_rotate with line 149 moved above the try of line 141: their_did is
\* set before the keys are recorded
commit_rotate_eager(conn, rid, record, n, o) ==
    LET marked == [record EXCEPT !.state = STATE_ACK_SENT]
        rotated == [conn EXCEPT !.their_did = marked.new_did]
        keys == record_keys_for_resolvable_did(marked.new_did, o.keys)
        ack == assign_thread_id(RotateAck(<<"ack", n>>), marked.thread_id)
        acking == send(ack, rotated.connection_id, o.send)
        saving_conn == conn_save(rotated, o.conn_save)
        saving_record == record_save(rid, marked, o.record_save)
    IN  IF marked.new_did = "" THEN Outcome(<<>>, "ValueError", marked, conn)
        ELSE IF ~o.keys
        THEN Outcome(<<keys>>, "DIDRotateManagerError", marked, rotated)
        ELSE IF ~o.send
        THEN Outcome(<<keys, acking>>, "TransportError", marked, rotated)
        ELSE IF ~o.conn_save
        THEN Outcome(<<keys, acking, saving_conn>>, "StorageError", marked, rotated)
        ELSE IF ~o.record_save
        THEN Outcome(<<keys, acking, saving_conn, saving_record>>, "StorageError",
                     marked, rotated)
        ELSE Outcome(<<keys, acking, saving_conn, saving_record>>, "ok",
                     marked, rotated)

\* commit_rotate with the two saves of lines 160-161 in the other order
commit_rotate_record_first(conn, rid, record, n, o) ==
    LET marked == [record EXCEPT !.state = STATE_ACK_SENT]
        keys == record_keys_for_resolvable_did(marked.new_did, o.keys)
        rotated == [conn EXCEPT !.their_did = marked.new_did]
        ack == assign_thread_id(RotateAck(<<"ack", n>>), marked.thread_id)
        acking == send(ack, rotated.connection_id, o.send)
        saving_conn == conn_save(rotated, o.conn_save)
        saving_record == record_save(rid, marked, o.record_save)
    IN  IF marked.new_did = "" THEN Outcome(<<>>, "ValueError", marked, conn)
        ELSE IF ~o.keys
        THEN Outcome(<<keys>>, "DIDRotateManagerError", marked, conn)
        ELSE IF ~o.send
        THEN Outcome(<<keys, acking>>, "TransportError", marked, rotated)
        ELSE IF ~o.record_save
        THEN Outcome(<<keys, acking, saving_record>>, "StorageError", marked, rotated)
        ELSE IF ~o.conn_save
        THEN Outcome(<<keys, acking, saving_record, saving_conn>>, "StorageError",
                     marked, rotated)
        ELSE Outcome(<<keys, acking, saving_record, saving_conn>>, "ok",
                     marked, rotated)

\* commit_rotate with the saves of lines 160-161 moved above the send of
\* lines 154-155
commit_rotate_save_first(conn, rid, record, n, o) ==
    LET marked == [record EXCEPT !.state = STATE_ACK_SENT]
        keys == record_keys_for_resolvable_did(marked.new_did, o.keys)
        rotated == [conn EXCEPT !.their_did = marked.new_did]
        ack == assign_thread_id(RotateAck(<<"ack", n>>), marked.thread_id)
        acking == send(ack, rotated.connection_id, o.send)
        saving_conn == conn_save(rotated, o.conn_save)
        saving_record == record_save(rid, marked, o.record_save)
    IN  IF marked.new_did = "" THEN Outcome(<<>>, "ValueError", marked, conn)
        ELSE IF ~o.keys
        THEN Outcome(<<keys>>, "DIDRotateManagerError", marked, conn)
        ELSE IF ~o.conn_save
        THEN Outcome(<<keys, saving_conn>>, "StorageError", marked, rotated)
        ELSE IF ~o.record_save
        THEN Outcome(<<keys, saving_conn, saving_record>>, "StorageError",
                     marked, rotated)
        ELSE IF ~o.send
        THEN Outcome(<<keys, saving_conn, saving_record, acking>>, "TransportError",
                     marked, rotated)
        ELSE Outcome(<<keys, saving_conn, saving_record, acking>>, "ok",
                     marked, rotated)

\* commit_rotate without the check of lines 137-138
commit_rotate_unchecked(conn, rid, record, n, o) ==
    LET marked == [record EXCEPT !.state = STATE_ACK_SENT]
        keys == record_keys_for_resolvable_did(marked.new_did, o.keys)
        rotated == [conn EXCEPT !.their_did = marked.new_did]
        ack == assign_thread_id(RotateAck(<<"ack", n>>), marked.thread_id)
        acking == send(ack, rotated.connection_id, o.send)
        saving_conn == conn_save(rotated, o.conn_save)
        saving_record == record_save(rid, marked, o.record_save)
    IN  IF ~o.keys
        THEN Outcome(<<keys>>, "DIDRotateManagerError", marked, conn)
        ELSE IF ~o.send
        THEN Outcome(<<keys, acking>>, "TransportError", marked, rotated)
        ELSE IF ~o.conn_save
        THEN Outcome(<<keys, acking, saving_conn>>, "StorageError", marked, rotated)
        ELSE IF ~o.record_save
        THEN Outcome(<<keys, acking, saving_conn, saving_record>>, "StorageError",
                     marked, rotated)
        ELSE Outcome(<<keys, acking, saving_conn, saving_record>>, "ok",
                     marked, rotated)

commit_rotate(conn, rid, record, n, o) ==
    LET marked == [record EXCEPT !.state = STATE_ACK_SENT]
        keys == record_keys_for_resolvable_did(marked.new_did, o.keys)
        rotated == [conn EXCEPT !.their_did = marked.new_did]
        ack == assign_thread_id(RotateAck(<<"ack", n>>), marked.thread_id)
        acking == send(ack, rotated.connection_id, o.send)
        saving_conn == conn_save(rotated, o.conn_save)
        saving_record == record_save(rid, marked, o.record_save)
    IN  IF marked.new_did = "" THEN Outcome(<<>>, "ValueError", marked, conn)
        ELSE IF ~o.keys
        THEN Outcome(<<keys>>, "DIDRotateManagerError", marked, conn)
        ELSE IF ~o.send
        THEN Outcome(<<keys, acking>>, "TransportError", marked, rotated)
        ELSE IF ~o.conn_save
        THEN Outcome(<<keys, acking, saving_conn>>, "StorageError", marked, rotated)
        ELSE IF ~o.record_save
        THEN Outcome(<<keys, acking, saving_conn, saving_record>>, "StorageError",
                     marked, rotated)
        ELSE Outcome(<<keys, acking, saving_conn, saving_record>>, "ok",
                     marked, rotated)

\* receive_ack with a body: it answers the ack on its thread
receive_ack_answering(conn, ack) ==
    Outcome(<<send(assign_thread_id(RotateAck(<<"ack", 0>>), ack.thid),
                   conn.connection_id, TRUE)>>,
            "ok", NoRec, conn)

receive_ack(conn, ack) == Outcome(<<>>, "ok", NoRec, conn)

receive_problem_report(conn, problem_report) == Outcome(<<>>, "ok", NoRec, conn)

----------------------------------------------------------------------------
(* OOBProblemReportSchema: validate_fields.  The loaded data is a dict    *)
(* that may hold a description; a description is a dict, modelled as the  *)
(* sequence of its <<key, value>> items in insertion order.               *)

\* ProblemReportReason: the values of the enum
NO_EXISTING_CONNECTION == "no_existing_connection"
EXISTING_CONNECTION_NOT_ACTIVE == "existing_connection_not_active"
ProblemReportReason == {NO_EXISTING_CONNECTION, EXISTING_CONNECTION_NOT_ACTIVE}

\* the keys a description is built from, the codes it may carry (an empty one
\* and one outside the enum included) and the explanation under each locale
Locales == {"en", "fr"}
CodeValues == ProblemReportReason \cup {"", "unknown_code"}
Explanation(locale) == IF locale = "en" THEN "no connection" ELSE "pas de connexion"

Items == {<<"code", c>> : c \in CodeValues} \cup {<<l, Explanation(l)>> : l \in Locales}

\* dicts: every key at most once
Descriptions ==
    {d \in UNION {[1 .. m -> Items] : m \in 0 .. (Cardinality(Locales) + 1)} :
        \A i, j \in 1 .. Len(d) : d[i][1] = d[j][1] => i = j}

\* the data validate_fields is given: with a description, or without the key
Reports ==
    {[present |-> TRUE, description |-> d] : d \in Descriptions}
        \cup {[present |-> FALSE, description |-> <<>>]}

\* dict.get(key, default)
dict_get(d, key, default) ==
    IF \E i \in 1 .. Len(d) : d[i][1] = key
    THEN d[CHOOSE i \in 1 .. Len(d) : d[i][1] = key][2]
    ELSE default

\* list(dict.keys())
dict_keys(d) == [i \in 1 .. Len(d) |-> d[i][1]]

\* list.remove(x) on a list without duplicates
list_remove(list, x) == SelectSeq(list, LAMBDA k : k # x)

\* what validate_fields ends with ("ok": it returns) and the warning it logged
NoWarning == [code |-> "", description |-> ""]
Validation(result, warning) == [result |-> result, warning |-> warning]

\* validate_fields with a missing code let through
validate_fields_code_optional(data) ==
    LET description == IF data.present THEN data.description ELSE <<>>
        code == dict_get(description, "code", "")
        locales == list_remove(dict_keys(description), "code")
    IN  IF code = "" THEN Validation("ok", NoWarning)
        ELSE IF code \notin ProblemReportReason
        THEN IF locales = <<>> THEN Validation("IndexError", NoWarning)
             ELSE Validation("ok",
                      [code |-> dict_get(description, "code", ""),
                       description |-> dict_get(description, locales[1], "")])
        ELSE Validation("ok", NoWarning)

validate_fields(data) ==
    LET description == IF data.present THEN data.description ELSE <<>>
        code == dict_get(description, "code", "")
        locales == list_remove(dict_keys(description), "code")
    IN  IF code = "" THEN Validation("ValidationError", NoWarning)
        ELSE IF code \notin ProblemReportReason
        THEN IF locales = <<>> THEN Validation("IndexError", NoWarning)
             ELSE Validation("ok",
                      [code |-> dict_get(description, "code", ""),
                       description |-> dict_get(description, locales[1], "")])
        ELSE Validation("ok", NoWarning)

----------------------------------------------------------------------------
(* The collaborators' effects on the store and on the outbound log *)

Persisted(store) == {r \in DOMAIN store : store[r] # NoRec}

ThreadIds(store) == {store[r].thread_id : r \in Persisted(store)}

\* one invocation: st is [connStore, recStore, sent]; a failed one changes nothing
RunEvent(e, n, st) ==
    IF ~e.ok THEN st
    ELSE IF e.op = "send"
    THEN [st EXCEPT !.sent = Append(@,
              [msg |-> e.msg, connection_id |-> e.connection_id, call |-> n,
               matched |-> e.msg.thid \in ThreadIds(st.recStore)])]
    ELSE IF e.op = "conn.save"
    THEN [st EXCEPT !.connStore[e.connection_id] = e.did]
    ELSE IF e.op = "record.save"
    THEN [st EXCEPT !.recStore[e.rid] = e.rec]
    ELSE st

RECURSIVE RunEvents(_, _, _)
RunEvents(events, n, st) ==
    IF events = <<>> THEN st
    ELSE RunEvents(Tail(events), n, RunEvent(Head(events), n, st))

Store == [connStore |-> connStore, recStore |-> recStore, sent |-> sent]

load_conn(c) == [connection_id |-> c, their_did |-> connStore[c]]

----------------------------------------------------------------------------
(* Spec: handler calls, each run to completion *)

NoCall ==
    [n |-> 0, op |-> "none", conn |-> NoConn, rid |-> 0, record |-> NoRec,
     msg |-> NoMsg, did |-> "", o |-> AllOk, out |-> Outcome(<<>>, "ok", NoRec, NoConn)]

IdleTask ==
    [pc |-> "idle", n |-> 0, rid |-> 0, conn |-> NoConn, record |-> NoRec,
     done |-> <<>>, result |-> "none"]

Init ==
    /\ connStore = [c \in Conns |-> OldDid]
    /\ recStore = [r \in RecIds |-> NoRec]
    /\ sent = <<>>
    /\ call = NoCall
    /\ tasks = [t \in TaskIds |-> IdleTask]
    /\ validated = <<>>

\* Spec runs at most MaxCalls calls
MoreCalls == call.n < MaxCalls

\* the call (its arguments, the outcomes o it met, what it did) is run against
\* the store
Complete(op, args, o, out) ==
    LET n == call.n + 1
        st == RunEvents(out.events, n, Store)
    IN  /\ connStore' = st.connStore
        /\ recStore' = st.recStore
        /\ sent' = st.sent
        /\ call' = [n |-> n, op |-> op, conn |-> args.conn, rid |-> args.rid,
                    record |-> args.record, msg |-> args.msg, did |-> args.did,
                    o |-> o, out |-> out]
        /\ UNCHANGED <<tasks, validated>>

Args(conn, rid, record, msg, did) ==
    [conn |-> conn, rid |-> rid, record |-> record, msg |-> msg, did |-> did]

RotateMyDid ==
    \E c \in Conns, new_did \in DIDs, o \in RotateOutcomes :
        /\ MoreCalls
        /\ Complete("rotate_my_did", Args(load_conn(c), 0, NoRec, NoMsg, new_did), o,
                    rotate_my_did(load_conn(c), new_did, call.n + 1, o))

\* ensure_supported_did called on its own: the exception it raises is the result,
\* the problem report the exception carries is kept as the call's record of it
EnsureSupportedDid ==
    \E did \in DIDs, o \in EnsureOutcomes :
        LET checked == ensure_supported_did(did, call.n + 1, o)
        IN  /\ MoreCalls
            /\ Complete("ensure_supported_did",
                        Args(NoConn, 0, NoRec, checked.message, did), o,
                        Outcome(checked.events,
                                IF checked.raised = "none" THEN "ok" ELSE checked.raised,
                                NoRec, NoConn))

ReceiveRotate ==
    \E c \in Conns, id \in InboundIds, to_did \in DIDs, o \in ReceiveOutcomes :
        /\ MoreCalls
        /\ Complete("receive_rotate",
                    Args(load_conn(c), 0, NoRec, Rotate(id, to_did), to_did), o,
                    receive_rotate(load_conn(c), Rotate(id, to_did), call.n + 1, o))

\* the caller commits a record it loaded, on that record's connection
CommitRotate ==
    \E rid \in Persisted(recStore), o \in CommitOutcomes :
        LET record == recStore[rid]
            conn == load_conn(record.connection_id)
        IN  /\ MoreCalls
            /\ Complete("commit_rotate", Args(conn, rid, record, NoMsg, record.new_did), o,
                        commit_rotate(conn, rid, record, call.n + 1, o))

\* the peer's answer to a Rotate arrives on the record's connection
ReceiveAck ==
    \E rid \in Persisted(recStore) :
        LET record == recStore[rid]
            conn == load_conn(record.connection_id)
            ack == assign_thread_id(RotateAck(<<"peer", rid>>), record.thread_id)
        IN  /\ MoreCalls
            /\ Complete("receive_ack", Args(conn, rid, record, ack, ""), AllOk,
                        receive_ack(conn, ack))

ReceiveProblemReport ==
    \E rid \in Persisted(recStore), code \in {DID_UNRESOLVABLE, DID_METHOD_UNSUPPORTED} :
        LET record == recStore[rid]
            conn == load_conn(record.connection_id)
            report == assign_thread_id(RotateProblemReport(<<"peer", rid>>, code),
                                       record.thread_id)
        IN  /\ MoreCalls
            /\ Complete("receive_problem_report", Args(conn, rid, record, report, ""),
                        AllOk, receive_problem_report(conn, report))

Next ==
    \/ RotateMyDid
    \/ EnsureSupportedDid
    \/ ReceiveRotate
    \/ CommitRotate
    \/ ReceiveAck
    \/ ReceiveProblemReport

Spec == Init /\ [][Next]_vars

----------------------------------------------------------------------------
(* ConcSpec: commit_rotate calls as tasks.  A task holds the objects it   *)
(* was given and the invocations it has completed; each step performs the *)
(* next await of commit_rotate, whose outcome is chosen at that moment.   *)

\* the outcomes under which commit_rotate begins with the invocations in done
Consistent(t, o) ==
    LET out == commit_rotate(t.conn, t.rid, t.record, t.n, o)
    IN  /\ Len(out.events) >= Len(t.done)
        /\ SubSeq(out.events, 1, Len(t.done)) = t.done

\* handler calls begun so far; ConcSpec runs at most MaxTasks of them
Begun == call.n + Cardinality({i \in TaskIds : tasks[i].pc # "idle"})

\* a record a commit can be given exists once receive_rotate has persisted it
Persist ==
    \E c \in Conns, id \in InboundIds, to_did \in DIDs :
        /\ MoreCalls
        /\ Begun < MaxTasks
        /\ Complete("receive_rotate",
                    Args(load_conn(c), 0, NoRec, Rotate(id, to_did), to_did), AllOk,
                    receive_rotate(load_conn(c), Rotate(id, to_did), call.n + 1, AllOk))

\* tasks are numbered in the order they start
CommitStart(i) ==
    \E rid \in Persisted(recStore) :
        /\ tasks[i].pc = "idle"
        /\ Begun < MaxTasks
        /\ \A j \in TaskIds : j < i => tasks[j].pc # "idle"
        /\ tasks' = [tasks EXCEPT ![i] =
               [IdleTask EXCEPT !.pc = "running", !.n = MaxCalls + i, !.rid = rid,
                                !.record = recStore[rid],
                                !.conn = load_conn(recStore[rid].connection_id)]]
        /\ UNCHANGED <<connStore, recStore, sent, call, validated>>

CommitStep(i) ==
    \E o \in CommitOutcomes :
        LET t == tasks[i]
            out == commit_rotate(t.conn, t.rid, t.record, t.n, o)
            k == Len(t.done) + 1
            last == k > Len(out.events) \/ k = Len(out.events) \/ ~out.events[k].ok
            st == IF k > Len(out.events) THEN Store
                  ELSE RunEvent(out.events[k], t.n, Store)
        IN  /\ t.pc = "running"
            /\ Consistent(t, o)
            /\ connStore' = st.connStore
            /\ recStore' = st.recStore
            /\ sent' = st.sent
            /\ tasks' = [tasks EXCEPT ![i] =
                   [t EXCEPT !.done = IF k > Len(out.events) THEN @
                                      ELSE Append(@, out.events[k]),
                             !.pc = IF last THEN "done" ELSE "running",
                             !.result = IF last THEN out.result ELSE "none",
                             !.record = out.record,
                             !.conn = out.conn]]
            /\ UNCHANGED <<call, validated>>

ConcNext ==
    \/ Persist
    \/ \E i \in TaskIds : CommitStart(i)
    \/ \E i \in TaskIds : CommitStep(i)

ConcSpec == Init /\ [][ConcNext]_vars

----------------------------------------------------------------------------
(* SchemaSpec: validate_fields applied to one report after another *)

ValidateFields ==
    \E data \in Reports :
        /\ Len(validated) < MaxReports
        /\ validated' = Append(validated, [data |-> data, out |-> validate_fields(data)])
        /\ UNCHANGED <<connStore, recStore, sent, call, tasks>>

SchemaNext == ValidateFields

SchemaSpec == Init /\ [][SchemaNext]_vars

----------------------------------------------------------------------------
(* Reading a call back *)

\* the messages the call numbered n handed to the responder and that went out
SentBy(n) == SelectSeq(sent, LAMBDA m : m.call = n)

Invoked(events, op) == SelectSeq(events, LAMBDA e : e.op = op)

Ran(op) == call.op = op

\* the step from the unprimed to the primed state is a call of op
Runs(op) == call'.n # call.n /\ call'.op = op

----------------------------------------------------------------------------
(* Claims *)

\* C1: rotate_my_did, when the transport send and the save both succeed, hands
\* exactly one message to the responder, a Rotate with to_did = new_did on the
\* given connection, and persists exactly one record, a new one, with role
\* ROTATING, state SENT, the given new_did and connection, and the sent
\* Rotate's id as thread_id; nothing else in the store changes.
C1_InitiateRotation ==
    [][(Runs("rotate_my_did") /\ call'.out.result = "ok") =>
        \E rid \in RecIds, id \in {<<"rotate", k>> : k \in 1 .. MaxCalls},
           known \in BOOLEAN :
            /\ sent' = Append(sent,
                   [msg |-> Rotate(id, call'.did),
                    connection_id |-> call'.conn.connection_id,
                    call |-> call'.n, matched |-> known])
            /\ id \notin {sent[i].msg.id : i \in 1 .. Len(sent)}
            /\ Len(Invoked(call'.out.events, "send")) = 1
            /\ recStore[rid] = NoRec
            /\ recStore' = [recStore EXCEPT ![rid] =
                   [role |-> ROLE_ROTATING, state |-> STATE_ROTATE_SENT,
                    connection_id |-> call'.conn.connection_id,
                    new_did |-> call'.did, thread_id |-> id]]
            /\ connStore' = connStore]_vars

C1_Witness ==
    /\ Ran("rotate_my_did") /\ call.out.result = "ok"
    /\ call.did = "did:new" /\ call.conn.connection_id = 2
    /\ Len(SentBy(call.n)) = 1

\* C2: after a commit_rotate call that completes, the persisted their_did of the
\* record's connection is record.new_did, the persisted record is the given one
\* in state ACK_SENT, and the call handed exactly one message to the responder:
\* a RotateAck on the record's connection whose thread id is record.thread_id.
C2_CommitRotation ==
    (Ran("commit_rotate") /\ call.out.result = "ok") =>
        LET mine == SentBy(call.n)
        IN  /\ connStore[call.record.connection_id] = call.record.new_did
            /\ recStore[call.rid] = [call.record EXCEPT !.state = STATE_ACK_SENT]
            /\ Len(Invoked(call.out.events, "send")) = 1
            /\ Len(mine) = 1
            /\ mine[1].msg.type = "RotateAck"
            /\ mine[1].connection_id = call.record.connection_id
            /\ mine[1].msg.thid = call.record.thread_id
            /\ mine[1].msg.thid # NoThread

C2_Witness ==
    /\ Ran("commit_rotate") /\ call.out.result = "ok"
    /\ call.record.state = STATE_ROTATE_RECEIVED
    /\ call.conn.their_did = OldDid
    /\ connStore[call.record.connection_id] = "did:new"

KeysFailed(events) ==
    \E i \in 1 .. Len(events) :
        events[i].op = "record_keys_for_resolvable_did" /\ ~events[i].ok

\* C3: when record_keys_for_resolvable_did fails, commit_rotate ends with
\* DIDRotateManagerError (not a reportable error), conn.their_did is what it was
\* before the call both on the object and in the store, no message is handed to
\* the responder and nothing is saved.
C3_KeysFailure ==
    [][(Runs("commit_rotate") /\ KeysFailed(call'.out.events)) =>
        /\ call'.out.result = "DIDRotateManagerError"
        /\ call'.out.result \notin ReportableDIDRotateError
        /\ call'.out.conn.their_did = connStore[call'.conn.connection_id]
        /\ call'.out.conn = call'.conn
        /\ connStore' = connStore
        /\ recStore' = recStore
        /\ sent' = sent
        /\ Invoked(call'.out.events, "send") = <<>>
        /\ Invoked(call'.out.events, "conn.save") = <<>>
        /\ Invoked(call'.out.events, "record.save") = <<>>]_vars

C3_Witness ==
    /\ Ran("commit_rotate") /\ KeysFailed(call.out.events)
    /\ call.out.result = "DIDRotateManagerError"
    /\ call.record.new_did = "did:new" /\ call.conn.their_did = OldDid

\* the record receive_rotate builds for the Rotate it was called with
Received(c) ==
    [role |-> ROLE_OBSERVING, state |-> STATE_ROTATE_RECEIVED,
     connection_id |-> c.conn.connection_id, new_did |-> c.msg.to_did,
     thread_id |-> c.msg.id]

\* C4: when the resolver reports the Rotate's to_did as not found, receive_rotate
\* hands the responder exactly one message, a RotateProblemReport with code
\* DID_UNRESOLVABLE on the connection the Rotate arrived on, and never a
\* RotateAck; once that send has succeeded it saves exactly one record, a new
\* one with role OBSERVING, state RECEIVED, new_did = to_did and thread_id = the
\* Rotate's id, and their_did is left alone.  (A send that fails ends the call
\* with the transport's error before the save.)
C4_Unresolvable ==
    [][(Runs("receive_rotate") /\ call'.o.resolve = "DIDNotFound") =>
        LET sends == Invoked(call'.out.events, "send")
            saves == Invoked(call'.out.events, "record.save")
        IN  /\ Len(sends) = 1
            /\ sends[1].msg.type = "RotateProblemReport"
            /\ sends[1].msg.code = DID_UNRESOLVABLE
            /\ sends[1].connection_id = call'.conn.connection_id
            /\ connStore' = connStore
            /\ IF sends[1].ok
               THEN /\ Len(sent') = Len(sent) + 1
                    /\ SubSeq(sent', 1, Len(sent)) = sent
                    /\ sent'[Len(sent')].msg = sends[1].msg
                    /\ sent'[Len(sent')].connection_id = call'.conn.connection_id
                    /\ Len(saves) = 1
                    /\ saves[1].rec = Received(call')
                    /\ recStore[saves[1].rid] = NoRec
                    /\ recStore' = IF saves[1].ok
                                   THEN [recStore EXCEPT ![saves[1].rid] = Received(call')]
                                   ELSE recStore
                    /\ call'.out.result = IF saves[1].ok THEN "ok" ELSE "StorageError"
               ELSE /\ sent' = sent
                    /\ recStore' = recStore
                    /\ call'.out.result = "TransportError"]_vars

C4_Witness ==
    /\ Ran("receive_rotate") /\ call.o.resolve = "DIDNotFound"
    /\ call.out.result = "ok"
    /\ Len(SentBy(call.n)) = 1
    /\ SentBy(call.n)[1].msg.code = DID_UNRESOLVABLE
    /\ recStore[call.n] = Received(call)

\* C5: the reportable error and the report's code correspond one to one.
\* ensure_supported_did raises UnsupportedDIDMethodError exactly when the
\* resolver raises DIDMethodNotSupported, and the report it carries has code
\* DID_METHOD_UNSUPPORTED; it raises UnresolvableDIDError exactly when the
\* resolver raises DIDNotFound, and the report has code DID_UNRESOLVABLE; the two
\* codes differ.  In receive_rotate the one message handed to the responder for
\* an unsupported method is that report, with code DID_METHOD_UNSUPPORTED.
C5_ReportCodes ==
    /\ DID_METHOD_UNSUPPORTED # DID_UNRESOLVABLE
    /\ Ran("ensure_supported_did") =>
        /\ call.o.resolve = "DIDMethodNotSupported"
               <=> call.out.result = "UnsupportedDIDMethodError"
        /\ call.o.resolve = "DIDNotFound"
               <=> call.out.result = "UnresolvableDIDError"
        /\ call.out.result = "UnsupportedDIDMethodError" =>
               /\ call.msg.type = "RotateProblemReport"
               /\ call.msg.code = DID_METHOD_UNSUPPORTED
        /\ call.out.result = "UnresolvableDIDError" =>
               /\ call.msg.type = "RotateProblemReport"
               /\ call.msg.code = DID_UNRESOLVABLE
        /\ call.out.result \notin ReportableDIDRotateError => call.msg = NoMsg
    /\ Ran("receive_rotate") =>
        LET sends == Invoked(call.out.events, "send")
        IN  /\ call.o.resolve = "DIDMethodNotSupported" =>
                   /\ Len(sends) = 1
                   /\ sends[1].msg.type = "RotateProblemReport"
                   /\ sends[1].msg.code = DID_METHOD_UNSUPPORTED
            /\ \A i \in 1 .. Len(sends) :
                   /\ sends[i].msg.code = DID_METHOD_UNSUPPORTED
                          <=> call.o.resolve = "DIDMethodNotSupported"
                   /\ sends[i].msg.code = DID_UNRESOLVABLE
                          <=> call.o.resolve = "DIDNotFound"

C5_Witness ==
    /\ Ran("receive_rotate") /\ call.o.resolve = "DIDMethodNotSupported"
    /\ Len(SentBy(call.n)) = 1
    /\ SentBy(call.n)[1].msg.code = DID_METHOD_UNSUPPORTED

\* C6: every RotateAck and RotateProblemReport handed to the responder has a
\* thread id, which at that moment is the thread_id of a persisted record; the
\* report receive_rotate sends has the id of the Rotate it answers.
C6_ThreadIds ==
    /\ \A i \in 1 .. Len(sent) :
           sent[i].msg.type \in {"RotateAck", "RotateProblemReport"} =>
               /\ sent[i].msg.thid # NoThread
               /\ sent[i].matched
    /\ Ran("receive_rotate") =>
           \A i \in 1 .. Len(SentBy(call.n)) :
               SentBy(call.n)[i].msg.type = "RotateProblemReport" =>
                   SentBy(call.n)[i].msg.thid = call.msg.id

\* C7: when the resolver succeeds and resolve_didcomm_services fails,
\* receive_rotate ends with DIDRotateManagerError, which is not reportable, and
\* hands no message to the responder.
C7_ServicesFailure ==
    (Ran("receive_rotate") /\ call.o.resolve = "ok" /\ ~call.o.services) =>
        /\ call.out.result = "DIDRotateManagerError"
        /\ call.out.result \notin ReportableDIDRotateError
        /\ Invoked(call.out.events, "send") = <<>>
        /\ SentBy(call.n) = <<>>

C7_Witness ==
    /\ Ran("receive_rotate") /\ call.o.resolve = "ok" /\ ~call.o.services
    /\ \E i \in 1 .. Len(call.out.events) :
           call.out.events[i].op = "resolve_didcomm_services" /\ ~call.out.events[i].ok
    /\ call.out.result = "DIDRotateManagerError"

\* C8: when the resolver raises DIDNotFound or DIDMethodNotSupported and the
\* send and the save succeed, receive_rotate returns without an error, having
\* handed the responder exactly one message, a RotateProblemReport.
C8_ReportableCaught ==
    (/\ Ran("receive_rotate")
     /\ call.o.resolve \in {"DIDNotFound", "DIDMethodNotSupported"}
     /\ call.o.send /\ call.o.record_save) =>
        /\ call.out.result = "ok"
        /\ Len(Invoked(call.out.events, "send")) = 1
        /\ Len(SentBy(call.n)) = 1
        /\ SentBy(call.n)[1].msg.type = "RotateProblemReport"

C8_Witness ==
    /\ Ran("receive_rotate") /\ call.o.resolve = "DIDMethodNotSupported"
    /\ call.o.send /\ call.o.record_save
    /\ call.out.result = "ok"
    /\ Len(SentBy(call.n)) = 1

\* a commit_rotate task for record rid has completed its conn.save
ConnSavedFor(rid) ==
    \E i \in TaskIds :
        /\ tasks[i].rid = rid
        /\ \E k \in 1 .. Len(tasks[i].done) :
               tasks[i].done[k].op = "conn.save" /\ tasks[i].done[k].ok

\* C9: whenever a record is persisted in state ACK_SENT, a commit_rotate of that
\* record has already saved the connection, and the persisted their_did of the
\* record's connection is a new_did such a commit saved, under every
\* interleaving of commit_rotate calls.
C9_AckSentAfterTheirDid ==
    \A rid \in Persisted(recStore) :
        recStore[rid].state = STATE_ACK_SENT =>
            /\ ConnSavedFor(rid)
            /\ connStore[recStore[rid].connection_id] \in
                   {recStore[r].new_did :
                       r \in {q \in Persisted(recStore) :
                                 /\ recStore[q].connection_id = recStore[rid].connection_id
                                 /\ ConnSavedFor(q)}}

\* a record is ACK_SENT while another commit_rotate on the same connection is
\* between its send and its conn.save
C9_Witness ==
    \E rid \in Persisted(recStore), i \in TaskIds :
        /\ recStore[rid].state = STATE_ACK_SENT
        /\ connStore[recStore[rid].connection_id] = recStore[rid].new_did
        /\ tasks[i].pc = "running"
        /\ tasks[i].record.connection_id = recStore[rid].connection_id
        /\ Len(tasks[i].done) = 2

\* C10: resolve_didcomm_services is invoked for a DID only after resolve has
\* succeeded for that DID in the same call; when resolve fails,
\* resolve_didcomm_services is not invoked and ensure_supported_did raises the
\* error of the resolution (UnresolvableDIDError for DIDNotFound,
\* UnsupportedDIDMethodError for DIDMethodNotSupported).
C10_TwoStage ==
    (Ran("ensure_supported_did") \/ Ran("receive_rotate")) =>
        LET ev == call.out.events
        IN  /\ Len(Invoked(ev, "resolve")) = 1
            /\ ev[1].op = "resolve" /\ ev[1].did = call.did
            /\ \A i \in 1 .. Len(ev) :
                   ev[i].op = "resolve_didcomm_services" =>
                       \E j \in 1 .. (i - 1) :
                           /\ ev[j].op = "resolve" /\ ev[j].ok
                           /\ ev[j].did = ev[i].did
            /\ (\E j \in 1 .. Len(ev) : ev[j].op = "resolve" /\ ~ev[j].ok) =>
                   /\ Invoked(ev, "resolve_didcomm_services") = <<>>
                   /\ Ran("ensure_supported_did") =>
                          call.out.result =
                              IF call.o.resolve = "DIDNotFound"
                              THEN "UnresolvableDIDError"
                              ELSE "UnsupportedDIDMethodError"
            /\ call.o.resolve = "ok" =>
                   Len(Invoked(ev, "resolve_didcomm_services")) = 1

C10_Witness ==
    /\ Ran("ensure_supported_did")
    /\ Len(call.out.events) = 2
    /\ call.out.events[1].op = "resolve" /\ call.out.events[1].ok
    /\ call.out.events[2].op = "resolve_didcomm_services" /\ ~call.out.events[2].ok

\* the positions in events at which op is invoked
Pos(events, op) == {i \in 1 .. Len(events) : events[i].op = op}

\* op was invoked and succeeded at a position before i
DoneBefore(events, op, i) ==
    \E j \in 1 .. (i - 1) : events[j].op = op /\ events[j].ok

\* C11: commit_rotate records the keys, sets conn.their_did, sends the RotateAck
\* and saves, in that order: the RotateAck is handed to the responder only after
\* record_keys_for_resolvable_did succeeded and with conn.their_did already set
\* to record.new_did; conn.save and record.save are invoked only after the send
\* succeeded; when the send fails the persisted their_did and the persisted
\* records are what they were before the call.
C11_CommitOrder ==
    [][Runs("commit_rotate") =>
        LET ev == call'.out.events
        IN  /\ \A i \in Pos(ev, "send") :
                   /\ DoneBefore(ev, "record_keys_for_resolvable_did", i)
                   /\ call'.out.conn.their_did = call'.record.new_did
                   /\ ev[i].msg.type = "RotateAck"
            /\ \A i \in Pos(ev, "conn.save") \cup Pos(ev, "record.save") :
                   DoneBefore(ev, "send", i)
            /\ \A i \in Pos(ev, "record.save") :
                   ev[i].rec.state = STATE_ACK_SENT
            /\ (\E i \in Pos(ev, "send") : ~ev[i].ok) =>
                   /\ call'.out.result = "TransportError"
                   /\ connStore' = connStore
                   /\ recStore' = recStore
                   /\ sent' = sent]_vars

C11_Witness ==
    /\ Ran("commit_rotate") /\ call.out.result = "TransportError"
    /\ call.record.state = STATE_ROTATE_RECEIVED
    /\ call.record.new_did = "did:new"
    /\ connStore[call.record.connection_id] = OldDid
    /\ recStore[call.rid].state = STATE_ROTATE_RECEIVED
    /\ sent = <<>>

\* C12: rotate_my_did hands the Rotate to the responder exactly once per call
\* and invokes record.save only after that send succeeded; when the send fails
\* the call ends with the transport's error, record.save is not invoked and no
\* record is persisted; when the save fails after the send, the call ends with
\* the storage's error having sent the one message and no more.
C12_SendThenSave ==
    [][Runs("rotate_my_did") =>
        LET ev == call'.out.events
        IN  /\ Len(Invoked(ev, "send")) = 1
            /\ ev[1].op = "send"
            /\ \A i \in Pos(ev, "record.save") : DoneBefore(ev, "send", i)
            /\ ~ev[1].ok =>
                   /\ call'.out.result = "TransportError"
                   /\ Invoked(ev, "record.save") = <<>>
                   /\ recStore' = recStore
                   /\ sent' = sent
            /\ (ev[1].ok /\ \E i \in Pos(ev, "record.save") : ~ev[i].ok) =>
                   /\ call'.out.result = "StorageError"
                   /\ Len(sent') = Len(sent) + 1
                   /\ recStore' = recStore
            /\ connStore' = connStore]_vars

\* the save failed after the Rotate went out
C12_Witness ==
    /\ Ran("rotate_my_did") /\ call.out.result = "StorageError"
    /\ Len(SentBy(call.n)) = 1
    /\ SentBy(call.n)[1].msg.type = "Rotate"
    /\ Len(Invoked(call.out.events, "record.save")) = 1
    /\ Persisted(recStore) = {}

\* C13: commit_rotate given a record with no new_did (empty or None, both
\* falsy at line 137) raises ValueError before invoking any collaborator: no
\* record_keys_for_resolvable_did, no send, no save; conn.their_did is
\* unchanged on the object and in the store, and no record is persisted or
\* changed.
C13_NoNewDid ==
    [][(Runs("commit_rotate") /\ call'.record.new_did = "") =>
        /\ call'.out.result = "ValueError"
        /\ call'.out.events = <<>>
        /\ call'.out.conn = call'.conn
        /\ connStore' = connStore
        /\ recStore' = recStore
        /\ sent' = sent]_vars

C13_Witness ==
    /\ Ran("commit_rotate") /\ call.record.new_did = ""
    /\ call.out.result = "ValueError"
    /\ call.record.state = STATE_ROTATE_RECEIVED
    /\ recStore[call.rid] = call.record
    /\ connStore[call.record.connection_id] = OldDid

Answered(op) ==
    /\ Ran(op)
    /\ call.record.role = ROLE_ROTATING
    /\ call.record.state = STATE_ROTATE_SENT
    /\ call.msg.thid = call.record.thread_id

\* C15: once the RotateAck for the thread of a ROTATING record in state SENT
\* has been received, and likewise once a RotateProblemReport for it has been
\* received, the persisted record is no longer in the active state SENT; after
\* a problem report it is not in a state that says the rotation succeeded.
C15_TerminalOnAnswer ==
    /\ Answered("receive_ack") =>
           recStore[call.rid].state # STATE_ROTATE_SENT
    /\ Answered("receive_problem_report") =>
           recStore[call.rid].state \notin {STATE_ROTATE_SENT, STATE_ACK_SENT}

\* the states in which a rotation attempt is still open
ActiveStates == {STATE_ROTATE_SENT, STATE_ROTATE_RECEIVED}

\* C16: no connection has two persisted records with different thread ids that
\* are both in an active state (rotate-sent or rotate-received).
C16_OneActivePerConnection ==
    \A r1, r2 \in Persisted(recStore) :
        (/\ recStore[r1].connection_id = recStore[r2].connection_id
         /\ recStore[r1].thread_id # recStore[r2].thread_id)
        => ~(/\ recStore[r1].state \in ActiveStates
             /\ recStore[r2].state \in ActiveStates)

\* the code a validated report carries: "" when the description, or its code
\* key, is missing
CodeOf(data) ==
    IF data.present /\ \E i \in 1 .. Len(data.description) : data.description[i][1] = "code"
    THEN LET i == CHOOSE k \in 1 .. Len(data.description) : data.description[k][1] = "code"
         IN  data.description[i][2]
    ELSE ""

\* the description's entries other than the code, in the order they were given
Explanations(data) == SelectSeq(data.description, LAMBDA item : item[1] # "code")

\* C17 as stated: a report whose description has no code, and a report whose
\* code is outside the enumerated reason codes, both pass validate_fields.
C17_LenientAboutCode ==
    \A i \in 1 .. Len(validated) :
        CodeOf(validated[i].data) \notin ProblemReportReason =>
            validated[i].out.result = "ok"

\* C17, amended: validate_fields requires the code and is lenient only about
\* its value.  A report with no description, no code or an empty code is
\* rejected with a ValidationError.  A report with a code outside
\* ProblemReportReason is never rejected with a ValidationError: when its
\* description has another entry it passes, with a warning logged that gives
\* the code and the text of the first other entry; when the code is the
\* description's only entry, building the warning raises IndexError.  A report
\* with an enumerated code passes with no warning.
C17_CodeRequired ==
    \A i \in 1 .. Len(validated) :
        LET data == validated[i].data
            out == validated[i].out
            code == CodeOf(data)
        IN  /\ code = "" =>
                   out = Validation("ValidationError", NoWarning)
            /\ (code # "" /\ code \notin ProblemReportReason) =>
                   /\ out.result # "ValidationError"
                   /\ Explanations(data) # <<>> =>
                          /\ out.result = "ok"
                          /\ out.warning.code = code
                          /\ out.warning.description = Explanations(data)[1][2]
                   /\ Explanations(data) = <<>> =>
                          out = Validation("IndexError", NoWarning)
            /\ code \in ProblemReportReason =>
                   out = Validation("ok", NoWarning)

\* a report without a code has been rejected and one with an unknown code and
\* an explanation has passed with a warning
C17_Witness ==
    \E i, j \in 1 .. Len(validated) :
        /\ validated[i].data.present
        /\ Len(validated[i].data.description) > 0
        /\ CodeOf(validated[i].data) = ""
        /\ validated[i].out.result = "ValidationError"
        /\ CodeOf(validated[j].data) = "unknown_code"
        /\ validated[j].out.result = "ok"
        /\ validated[j].out.warning.code = "unknown_code"

\* the states a record of the given role may be in
StatesOf(role) ==
    IF role = ROLE_ROTATING THEN {STATE_ROTATE_SENT}
    ELSE {STATE_ROTATE_RECEIVED, STATE_ACK_SENT}

\* C18: after every step a persisted ROTATING record is in rotate-sent and a
\* persisted OBSERVING record in rotate-received or ack-sent; a persisted
\* record enters ack-sent only in a commit_rotate call and only from
\* rotate-received; no step changes the role or the connection_id of a
\* persisted record.
C18_RoleScopedState ==
    [][\A rid \in Persisted(recStore') :
        /\ recStore'[rid].state \in StatesOf(recStore'[rid].role)
        /\ (recStore'[rid].state = STATE_ACK_SENT /\ recStore[rid] # recStore'[rid]) =>
               /\ Runs("commit_rotate")
               /\ recStore[rid].state = STATE_ROTATE_RECEIVED
        /\ rid \in Persisted(recStore) =>
               /\ recStore'[rid].role = recStore[rid].role
               /\ recStore'[rid].connection_id = recStore[rid].connection_id]_vars

\* the terminal answers sent for the rotation attempt that the persisted
\* OBSERVING record rid stands for: the problem report its receive_rotate call
\* sent (a record's id is the number of the call that created it) and the
\* RotateAcks sent on its connection with its thread id
AnswersTo(rid) ==
    {i \in 1 .. Len(sent) :
        \/ /\ sent[i].msg.type = "RotateProblemReport"
           /\ sent[i].call = rid
        \/ /\ sent[i].msg.type = "RotateAck"
           /\ sent[i].msg.thid = recStore[rid].thread_id
           /\ sent[i].connection_id = recStore[rid].connection_id}

\* C19: for every rotation attempt received, the peer has been sent at most
\* one terminal answer: not both a RotateProblemReport and a RotateAck, and
\* not two RotateAcks.
C19_OneTerminalAnswer ==
    \A rid \in Persisted(recStore) :
        recStore[rid].role = ROLE_OBSERVING =>
            Cardinality(AnswersTo(rid)) <= 1

\* C20: after a commit_rotate call that failed on the empty new_did, on the key
\* recording or on the RotateAck send, the record object the call was given is
\* as it was before the call: its state is unchanged (rotate-received stays
\* rotate-received).
C20_FailedCommitKeepsRecord ==
    (/\ Ran("commit_rotate")
     /\ call.out.result \in {"ValueError", "DIDRotateManagerError", "TransportError"})
    => /\ call.out.record.state = call.record.state
       /\ call.out.record = call.record

====
